---------------------------- MODULE Spec2Model ----------------------------
(***************************************************************************)
(* Model of src/user_management_system.py: the UserDatabase record store.  *)
(*                                                                         *)
(* A User object is an entry of the heap, named by its object identity     *)
(* (oid).  UserDatabase.entries is a sequence of oids and                  *)
(* UserDatabase.srno_index a dictionary from int keys to oids, so that a   *)
(* mutation through one view is seen through the other, and so that        *)
(* list.remove (which compares with ==, the dataclass field comparison)    *)
(* and identity can be told apart.                                         *)
(*                                                                         *)
(* Python values are tagged: an int is PyInt(n), a str is PyStr(s) with s  *)
(* a sequence of one-character strings.                                    *)
(***************************************************************************)
EXTENDS Integers, Sequences, FiniteSets, TLC

\* ------------------------------------------------------------------ bounds
\* Largest number of User objects referenced by the store at one time (Spec).
MaxUsers == 2
\* Largest number of User objects in the create-only specification.
MaxCreates == 5

\* ------------------------------------------------------------ Python values
PyInt(n) == [t |-> "int", n |-> n, s |-> << >>]
PyStr(s) == [t |-> "str", n |-> 0, s |-> s]

Digits == <<"0", "1", "2", "3", "4", "5", "6", "7", "8", "9">>
UpperCase == <<"A", "B", "C", "D", "E", "F", "G", "H", "I", "J", "K", "L", "M",
               "N", "O", "P", "Q", "R", "S", "T", "U", "V", "W", "X", "Y", "Z">>
LowerCase == <<"a", "b", "c", "d", "e", "f", "g", "h", "i", "j", "k", "l", "m",
               "n", "o", "p", "q", "r", "s", "t", "u", "v", "w", "x", "y", "z">>

IsDigit(c) == \E i \in 1..Len(Digits) : Digits[i] = c
DigitVal(c) == (CHOOSE i \in 1..Len(Digits) : Digits[i] = c) - 1
IsSpace(c) == c \in {" ", "\t", "\n", "\r"}

\* str.lower(), character by character.
LowerChar(c) ==
    IF \E i \in 1..Len(UpperCase) : UpperCase[i] = c
    THEN LowerCase[CHOOSE i \in 1..Len(UpperCase) : UpperCase[i] = c]
    ELSE c
lower(s) == [i \in 1..Len(s) |-> LowerChar(s[i])]

\* str.strip(): int() ignores surrounding whitespace.
RECURSIVE LStrip(_)
LStrip(s) == IF s # << >> /\ IsSpace(Head(s)) THEN LStrip(Tail(s)) ELSE s
RECURSIVE RStrip(_)
RStrip(s) ==
    IF s # << >> /\ IsSpace(s[Len(s)]) THEN RStrip(SubSeq(s, 1, Len(s) - 1)) ELSE s
strip(s) == RStrip(LStrip(s))

\* The value of a digit string read left to right; "_" separators are skipped.
RECURSIVE DigitsValue(_, _)
DigitsValue(s, acc) ==
    IF s = << >> THEN acc
    ELSE IF Head(s) = "_" THEN DigitsValue(Tail(s), acc)
    ELSE DigitsValue(Tail(s), 10 * acc + DigitVal(Head(s)))

\* A well-formed int literal body: digits, single "_" only between digits.
IsIntBody(b) ==
    /\ b # << >>
    /\ \A i \in 1..Len(b) : IsDigit(b[i]) \/ b[i] = "_"
    /\ IsDigit(b[1]) /\ IsDigit(b[Len(b)])
    /\ \A i \in 1..(Len(b) - 1) : ~(b[i] = "_" /\ b[i + 1] = "_")

\* int(text): ok = FALSE stands for ValueError.
int(text) ==
    LET t == strip(text)
        signed == t # << >> /\ Head(t) \in {"+", "-"}
        body == IF signed THEN Tail(t) ELSE t
    IN  IF IsIntBody(body)
        THEN [ok |-> TRUE,
              n  |-> IF signed /\ Head(t) = "-"
                     THEN 0 - DigitsValue(body, 0) ELSE DigitsValue(body, 0)]
        ELSE [ok |-> FALSE, n |-> 0]

RECURSIVE NatToText(_)
NatToText(n) ==
    IF n < 10 THEN <<Digits[n + 1]>>
    ELSE NatToText(n \div 10) \o <<Digits[(n % 10) + 1]>>

\* str(value)
str(v) ==
    IF v.t = "str" THEN v.s
    ELSE IF v.n < 0 THEN <<"-">> \o NatToText(0 - v.n) ELSE NatToText(v.n)

\* ------------------------------------------------------------------ inputs
Alice == <<"A", "l", "i", "c", "e">>
Bob == <<"B", "o", "b">>
Engineer == <<"E", "n", "g", "i", "n", "e", "e", "r">>
Doctor == <<"D", "o", "c", "t", "o", "r">>
Female == <<"F">>
Male == <<"M">>
T30 == <<"3", "0">>
T25 == <<"2", "5">>
T31 == <<"3", "1">>
Tabc == <<"a", "b", "c">>
Empty == << >>

\* The calls of add_user that are tried.
AddArgs ==
    { [name |-> Alice, age |-> T30, gender |-> Female, occupation |-> Engineer],
      [name |-> Bob, age |-> T25, gender |-> Male, occupation |-> Doctor],
      [name |-> Alice, age |-> <<" ", "3", "0">>, gender |-> Female, occupation |-> Engineer],
      [name |-> Alice, age |-> Tabc, gender |-> Female, occupation |-> Engineer],
      [name |-> Bob, age |-> Empty, gender |-> Male, occupation |-> Doctor] }

\* The (key, value) pairs find_user and delete_user are tried with.
SearchArgs ==
    { <<"srno", <<"1">> >>, <<"srno", <<"2">> >>, <<"srno", Tabc>>,
      <<"name", <<"A", "L", "I", "C", "E">> >>, <<"name", <<"b", "o", "b">> >>,
      <<"age", T30>>,
      <<"email", Empty>>, <<"email", Tabc>> }

\* The (key, value) pairs update_user is tried with.
UpdateSearchArgs ==
    { <<"srno", <<"1">> >>, <<"srno", Tabc>>, <<"name", <<"b", "o", "b">> >> }

\* The new_data dictionaries update_user is tried with, in insertion order.
\* The last one has the keys and the order of get_user_input().
NewDatas ==
    { <<<<"age", T31>>>>,
      <<<<"age", Tabc>>>>,
      <<<<"age", Tabc>>, <<"name", Bob>>>>,
      <<<<"name", Bob>>, <<"age", Empty>>, <<"gender", Male>>, <<"occupation", Doctor>>>> }

\* The calls of the end-to-end scenario of the specification (section 8), and
\* the same calls on the other record.
ScenarioSearchArgs ==
    { <<"name", Alice>>, <<"name", Bob>>, <<"srno", <<"1">> >>, <<"srno", <<"2">> >> }
ScenarioNewDatas == { <<<<"age", T31>>>>, <<<<"age", Tabc>>>> }

\* new_data is an unrestricted dict: a caller of update_user may name any
\* attribute of User in it, srno included.
ApiNewDatas == NewDatas \cup { <<<<"srno", <<"7">> >>>> }

\* ------------------------------------------------------------------- state
VARIABLES
    entries,      \* UserDatabase.entries: the sequence of oids
    srno_index,   \* UserDatabase.srno_index: int key -> oid
    heap,         \* the User objects the store references: oid -> fields
    issued,       \* history: the srno values add_user has assigned so far
    last          \* the last call: its name, arguments, resolved object, result

vars == <<entries, srno_index, heap, issued, last>>
store == <<entries, srno_index, heap>>

Oids == 1..(MaxUsers + MaxCreates)
Fields == {"srno", "name", "age", "gender", "occupation"}

User(srno, name, age, gender, occupation) ==
    [srno |-> srno, name |-> name, age |-> age, gender |-> gender,
     occupation |-> occupation]

Range(f) == {f[x] : x \in DOMAIN f}

\* Objects referenced by neither view are reclaimed.
Collect(h, e, idx) == [o \in (Range(e) \cup Range(idx)) |-> h[o]]

\* A fresh object identity.
NewOid == CHOOSE o \in Oids : o \notin DOMAIN heap /\ \A p \in Oids : p < o => p \in DOMAIN heap

Result(kind, oid) == [kind |-> kind, oid |-> oid]
Call(op, key, value, data, target, res) ==
    [op |-> op, key |-> key, value |-> value, data |-> data, target |-> target,
     res |-> res]

Init ==
    /\ entries = << >>
    /\ srno_index = << >>
    /\ heap = << >>
    /\ issued = {}
    /\ last = Call("init", "", Empty, << >>, 0, Result("None", 0))

\* ------------------------------------------------------------- operations
\* Mutants of _get_next_srno: the size of the index instead of the list, and a
\* zero-based count.
_get_next_srno_from_index == Cardinality(DOMAIN srno_index) + 1
_get_next_srno_zero_based == Len(entries)

_get_next_srno == Len(entries) + 1

\* add_user called as add_user(**user_data): the arguments as a dict.
AddData(name, age, gender, occupation) ==
    <<<<"name", name>>, <<"age", age>>, <<"gender", gender>>,
      <<"occupation", occupation>>>>

\* Mutant of create_user: the User is inserted at the front of entries.
create_user_prepend(name, age_int, gender, occupation, data) ==
    LET o == NewOid
        srno == _get_next_srno
        user == User(PyInt(srno), PyStr(name), PyInt(age_int), PyStr(gender),
                     PyStr(occupation))
        e2 == <<o>> \o entries
        idx2 == [k \in (DOMAIN srno_index) \cup {srno} |->
                    IF k = srno THEN o ELSE srno_index[k]]
        h2 == [x \in (DOMAIN heap) \cup {o} |-> IF x = o THEN user ELSE heap[x]]
    IN  /\ entries' = e2
        /\ srno_index' = idx2
        /\ heap' = Collect(h2, e2, idx2)
        /\ issued' = issued \cup {srno}
        /\ last' = Call("add_user", "", Empty, data, o, Result("None", 0))

\* Lines 45-55 of add_user: build the User, append it, index it.
create_user(name, age_int, gender, occupation, data) ==
    LET o == NewOid
        srno == _get_next_srno
        user == User(PyInt(srno), PyStr(name), PyInt(age_int), PyStr(gender),
                     PyStr(occupation))
        e2 == Append(entries, o)
        idx2 == [k \in (DOMAIN srno_index) \cup {srno} |->
                    IF k = srno THEN o ELSE srno_index[k]]
        h2 == [x \in (DOMAIN heap) \cup {o} |-> IF x = o THEN user ELSE heap[x]]
    IN  /\ entries' = e2
        /\ srno_index' = idx2
        /\ heap' = Collect(h2, e2, idx2)
        /\ issued' = issued \cup {srno}
        /\ last' = Call("add_user", "", Empty, data, o, Result("None", 0))

\* Mutant of add_user: the ValueError handler does not return.
add_user_no_return(name, age, gender, occupation) ==
    create_user(name, int(age).n, gender, occupation,
                AddData(name, age, gender, occupation))

add_user(name, age, gender, occupation) ==
    LET p == int(age)
        data == AddData(name, age, gender, occupation)
    IN  IF ~p.ok
        THEN /\ UNCHANGED <<entries, srno_index, heap, issued>>
             /\ last' = Call("add_user", "", Empty, data, 0, Result("None", 0))
        ELSE create_user(name, p.n, gender, occupation, data)

\* Mutant of getattr: the default is None, which str() renders as 'None'.
getattr_default_none(rec, key) ==
    IF key \in Fields THEN rec[key] ELSE PyStr(<<"N", "o", "n", "e">>)

\* getattr(entry, key, '')
getattr(rec, key) == IF key \in Fields THEN rec[key] ELSE PyStr(Empty)

\* Mutant of FirstMatch: the comparison is case-sensitive.
FirstMatch_case_sensitive(key, value) ==
    LET hits == {i \in 1..Len(entries) :
                    str(getattr(heap[entries[i]], key)) = value}
    IN  IF hits = {} THEN 0
        ELSE entries[CHOOSE i \in hits : \A j \in hits : i <= j]

\* The first entry of the linear scan that matches, 0 when there is none.
FirstMatch(key, value) ==
    LET hits == {i \in 1..Len(entries) :
                    lower(str(getattr(heap[entries[i]], key))) = lower(value)}
    IN  IF hits = {} THEN 0
        ELSE entries[CHOOSE i \in hits : \A j \in hits : i <= j]

\* Mutant of find_user: the ValueError of int(value) is not caught.
find_user_uncaught(key, value) ==
    IF key = "srno"
    THEN LET p == int(value)
         IN  IF ~p.ok THEN Result("ValueError", 0)
             ELSE IF p.n \in DOMAIN srno_index
             THEN Result("User", srno_index[p.n])
             ELSE Result("None", 0)
    ELSE LET o == FirstMatch(key, value)
         IN  IF o = 0 THEN Result("None", 0) ELSE Result("User", o)

find_user(key, value) ==
    IF key = "srno"
    THEN LET p == int(value)
         IN  IF p.ok /\ p.n \in DOMAIN srno_index
             THEN Result("User", srno_index[p.n])
             ELSE Result("None", 0)
    ELSE LET o == FirstMatch(key, value)
         IN  IF o = 0 THEN Result("None", 0) ELSE Result("User", o)

FindUser(key, value) ==
    /\ UNCHANGED <<entries, srno_index, heap, issued>>
    /\ LET r == find_user(key, value)
       IN  last' = Call("find_user", key, value, << >>, r.oid, r)

\* setattr(user, field, val) for each item of new_data from position i on; the
\* age item is converted with int() first, and a ValueError stops the loop with
\* the assignments already made left in place.
\* Mutant of ApplyNewData: the age is validated but assigned as the text given.
RECURSIVE ApplyNewData_unconverted(_, _, _)
ApplyNewData_unconverted(rec, new_data, i) ==
    IF i > Len(new_data) THEN [ok |-> TRUE, rec |-> rec]
    ELSE LET field == new_data[i][1]
             val == new_data[i][2]
         IN  IF field = "age" /\ ~int(val).ok
             THEN [ok |-> FALSE, rec |-> rec]
             ELSE ApplyNewData_unconverted([rec EXCEPT ![field] = PyStr(val)],
                                           new_data, i + 1)

RECURSIVE ApplyNewData(_, _, _)
ApplyNewData(rec, new_data, i) ==
    IF i > Len(new_data) THEN [ok |-> TRUE, rec |-> rec]
    ELSE LET field == new_data[i][1]
             val == new_data[i][2]
         IN  IF field = "age"
             THEN IF int(val).ok
                  THEN ApplyNewData([rec EXCEPT !["age"] = PyInt(int(val).n)],
                                    new_data, i + 1)
                  ELSE [ok |-> FALSE, rec |-> rec]
             ELSE ApplyNewData([rec EXCEPT ![field] = PyStr(val)], new_data, i + 1)

\* Mutant of update_user: True is returned whether or not a record was found.
update_user_always_true(key, value, new_data) ==
    LET r == find_user(key, value)
    IN  IF r.kind # "User"
        THEN /\ UNCHANGED <<entries, srno_index, heap, issued>>
             /\ last' = Call("update_user", key, value, new_data, 0,
                             Result("True", 0))
        ELSE LET a == ApplyNewData(heap[r.oid], new_data, 1)
             IN  /\ heap' = [heap EXCEPT ![r.oid] = a.rec]
                 /\ UNCHANGED <<entries, srno_index, issued>>
                 /\ last' = Call("update_user", key, value, new_data, r.oid,
                                 Result("True", 0))

update_user(key, value, new_data) ==
    LET r == find_user(key, value)
    IN  IF r.kind # "User"
        THEN \* not found: return False (an exception of find_user propagates)
             /\ UNCHANGED <<entries, srno_index, heap, issued>>
             /\ last' = Call("update_user", key, value, new_data, 0,
                             Result(IF r.kind = "None" THEN "False" ELSE r.kind, 0))
        ELSE LET a == ApplyNewData(heap[r.oid], new_data, 1)
             IN  /\ heap' = [heap EXCEPT ![r.oid] = a.rec]
                 /\ UNCHANGED <<entries, srno_index, issued>>
                 /\ last' = Call("update_user", key, value, new_data, r.oid,
                                 Result(IF a.ok THEN "True" ELSE "False", 0))

\* list.remove(user): the first element equal to user (dataclass ==) is removed.
RemoveAt(e, i) == SubSeq(e, 1, i - 1) \o SubSeq(e, i + 1, Len(e))
EqualAt(user) == {i \in 1..Len(entries) : heap[entries[i]] = user}

delete_user(key, value) ==
    LET r == find_user(key, value)
    IN  IF r.kind # "User"
        THEN \* not found: return False (an exception of find_user propagates)
             /\ UNCHANGED <<entries, srno_index, heap, issued>>
             /\ last' = Call("delete_user", key, value, << >>, 0,
                             Result(IF r.kind = "None" THEN "False" ELSE r.kind, 0))
        ELSE LET user == heap[r.oid]
                 hits == EqualAt(user)
             IN  IF hits = {}
                 THEN \* entries.remove(user) raises ValueError
                      /\ UNCHANGED <<entries, srno_index, heap, issued>>
                      /\ last' = Call("delete_user", key, value, << >>, r.oid,
                                      Result("ValueError", 0))
                 ELSE LET e2 == RemoveAt(entries, CHOOSE i \in hits : \A j \in hits : i <= j)
                          found == user.srno.t = "int" /\ user.srno.n \in DOMAIN srno_index
                          idx2 == IF found
                                  THEN [k \in (DOMAIN srno_index) \ {user.srno.n} |->
                                           srno_index[k]]
                                  ELSE srno_index
                      IN  /\ entries' = e2
                          /\ srno_index' = idx2
                          /\ heap' = Collect(heap, e2, idx2)
                          /\ UNCHANGED issued
                          /\ last' = Call("delete_user", key, value, << >>, r.oid,
                                          Result(IF found THEN "True" ELSE "KeyError", 0))

\* ------------------------------------------------------------------- steps
AddUser(cap) ==
    \E a \in AddArgs :
        /\ int(a.age).ok => Cardinality(DOMAIN heap) < cap
        /\ add_user(a.name, a.age, a.gender, a.occupation)

Find(keys) == \E kv \in keys : FindUser(kv[1], kv[2])

UpdateUser(keys, dicts) ==
    \E kv \in keys, nd \in dicts : update_user(kv[1], kv[2], nd)

DeleteUser(keys) == \E kv \in keys : delete_user(kv[1], kv[2])

Next ==
    \/ AddUser(MaxUsers)
    \/ Find(SearchArgs)
    \/ UpdateUser(UpdateSearchArgs, NewDatas)
    \/ DeleteUser(SearchArgs)

Spec == Init /\ [][Next]_vars

\* The same store driven with every new_data of ApiNewDatas.
NextApi ==
    \/ AddUser(MaxUsers)
    \/ Find(SearchArgs)
    \/ UpdateUser(UpdateSearchArgs, ApiNewDatas)
    \/ DeleteUser(SearchArgs)

SpecApi == Init /\ [][NextApi]_vars

\* The store driven with the calls of the end-to-end scenario.
NextScenario ==
    \/ AddUser(MaxUsers)
    \/ Find(ScenarioSearchArgs)
    \/ UpdateUser(ScenarioSearchArgs, ScenarioNewDatas)
    \/ DeleteUser(ScenarioSearchArgs)

SpecScenario == Init /\ [][NextScenario]_vars

\* Only create operations.
NextCreate == AddUser(MaxCreates)

SpecCreate == Init /\ [][NextCreate]_vars

\* ------------------------------------------------------------------ claims
\* The srno values of the records of entries, in order.
EntrySrnos == [i \in 1..Len(entries) |-> heap[entries[i]].srno]

\* The age a call was given in its data; T30 stands in when it gave none.
AgeOf(data) ==
    IF \E i \in 1..Len(data) : data[i][1] = "age"
    THEN data[CHOOSE i \in 1..Len(data) : data[i][1] = "age"][2]
    ELSE T30

\* The inputs that are not numbers, and the numbers the others stand for.
Malformed == {Tabc, Empty}
AgeValue == (T30 :> 30) @@ (T25 :> 25) @@ (T31 :> 31) @@ (<<" ", "3", "0">> :> 30)

\* C1: in every reachable state no two records of entries have the same srno.
C1_UniqueSrno ==
    \A i, j \in 1..Len(entries) : i # j => EntrySrnos[i] # EntrySrnos[j]

\* C2: in every reachable state the keys of srno_index are exactly the srno
\* values of the records of entries.
C2_IndexKeysAreEntrySrnos ==
    {PyInt(k) : k \in DOMAIN srno_index} = Range(EntrySrnos)

\* C3: an update_user call that resolves a record and whose new age is not a
\* number returns False and leaves every field of that record as it was.
C3_UpdateAllOrNothing ==
    [][(/\ last'.op = "update_user"
        /\ last'.target # 0
        /\ AgeOf(last'.data) \in Malformed)
       => (/\ last'.res.kind = "False"
           /\ heap'[last'.target] = heap[last'.target])]_vars

\* C4: after delete_user('srno', k) has returned True, find_user('srno', k)
\* returns None and the deleted record is not in entries.
C4_DeleteRemovesFromBothViews ==
    [][(/\ last'.op = "delete_user"
        /\ last'.key = "srno"
        /\ last'.res.kind = "True")
       => (/\ find_user("srno", last.value)'.kind = "None"
           /\ last'.target \notin Range(entries'))]_vars

\* C5: the srno of a newly created record is greater than every srno an
\* earlier add_user assigned, deleted records included.
C5_SrnoNeverReused ==
    [][(last'.op = "add_user" /\ last'.target # 0)
       => \A k \in issued : heap'[last'.target].srno.n > k]_vars

\* C6: no step changes the srno of a record that exists before and after it;
\* in particular no update_user call does.
C6_SrnoStable ==
    [][\A o \in (DOMAIN heap) \cap (DOMAIN heap') :
          heap'[o].srno = heap[o].srno]_vars

\* C7: an add_user call whose age is not a number leaves entries, srno_index
\* and every record as they were, and consumes no srno.
C7_RejectedCreateChangesNothing ==
    [][(last'.op = "add_user" /\ AgeOf(last'.data) \in Malformed)
       => (/\ entries' = entries
           /\ srno_index' = srno_index
           /\ heap' = heap
           /\ issued' = issued
           /\ _get_next_srno' = _get_next_srno)]_vars

\* A rejected add_user has just run on a store that holds records.
C7_Witness ==
    /\ last.op = "add_user"
    /\ AgeOf(last.data) \in Malformed
    /\ Len(entries) > 0

\* The record add_user is to build from the arguments data, with srno n.
ExpectedUser(n, data) ==
    User(PyInt(n), PyStr(data[1][2]), PyInt(AgeValue[data[2][2]]),
         PyStr(data[3][2]), PyStr(data[4][2]))

\* C8: an add_user call with a numeric age, made with n records in entries,
\* appends a record with srno n + 1 and the given fields as the last element
\* of entries and maps n + 1 to it in srno_index; the records already in
\* entries keep their fields and their order.
C8_CreateAppendsAndIndexes ==
    [][(last'.op = "add_user" /\ AgeOf(last'.data) \notin Malformed)
       => LET n == Len(entries)
          IN  /\ Len(entries') = n + 1
              /\ heap'[entries'[n + 1]] = ExpectedUser(n + 1, last'.data)
              /\ entries'[n + 1] \notin DOMAIN heap
              /\ (n + 1) \in DOMAIN srno_index'
              /\ srno_index'[n + 1] = entries'[n + 1]
              /\ \A i \in 1..n : /\ entries'[i] = entries[i]
                                 /\ heap'[entries[i]] = heap[entries[i]]]_vars

\* A successful add_user has just run on a store that held a record.
C8_Witness ==
    /\ last.op = "add_user"
    /\ AgeOf(last.data) \notin Malformed
    /\ Len(entries) = 2
    /\ last.target = entries[2]

\* C9: when only add_user is called, the k-th record created has srno k, so
\* no two records of entries share a srno.
C9_CreateOnlySrnoIsPosition ==
    /\ \A i \in 1..Len(entries) : EntrySrnos[i] = PyInt(i)
    /\ \A i, j \in 1..Len(entries) : i # j => EntrySrnos[i] # EntrySrnos[j]

\* Three records were created and a rejected add_user came after them.
C9_Witness ==
    /\ Len(entries) >= 3
    /\ last.op = "add_user"
    /\ AgeOf(last.data) \in Malformed

\* C10: find_user('srno', value) with a value that is not a number returns
\* None and changes neither entries nor srno_index nor any record.
C10_MalformedSrnoFindsNone ==
    [][(/\ last'.op = "find_user"
        /\ last'.key = "srno"
        /\ last'.value \in Malformed)
       => (/\ last'.res.kind = "None"
           /\ entries' = entries
           /\ srno_index' = srno_index
           /\ heap' = heap)]_vars

\* find_user('srno', 'abc') has just run on a store that holds records.
C10_Witness ==
    /\ last.op = "find_user"
    /\ last.key = "srno"
    /\ last.value \in Malformed
    /\ Len(entries) > 0
    /\ DOMAIN srno_index # {}

\* The positions of entries whose field key, as lowercase text, is the
\* lowercase of value.
MatchingPositions(key, value) ==
    {i \in 1..Len(entries) : lower(str(heap[entries[i]][key])) = lower(value)}

\* C11: find_user on name, age, gender or occupation returns the first record
\* of entries whose field, as lowercase text, equals the lowercased value, and
\* None exactly when no record of entries matches.
C11_ScanFindsFirstMatch ==
    (last.op = "find_user" /\ last.key \in Fields \ {"srno"})
    => LET hits == MatchingPositions(last.key, last.value)
       IN  /\ (hits = {}) <=> (last.res.kind = "None")
           /\ \A i \in hits :
                 (\A j \in hits : i <= j) => last.res = Result("User", entries[i])

\* find_user('name', 'ALICE') has returned the first of two records named
\* 'Alice'.
C11_Witness ==
    /\ last.op = "find_user"
    /\ last.key = "name"
    /\ last.value = <<"A", "L", "I", "C", "E">>
    /\ Len(entries) = 2
    /\ heap[entries[1]].name = PyStr(Alice)
    /\ heap[entries[2]].name = PyStr(Alice)
    /\ last.res = Result("User", entries[1])

\* C12: update_user and delete_user called with a (key, value) for which
\* find_user returns None return False and change neither entries nor
\* srno_index nor any record.
C12_NotFoundChangesNothing ==
    [][(/\ last'.op \in {"update_user", "delete_user"}
        /\ find_user(last'.key, last'.value).kind = "None")
       => (/\ last'.res.kind = "False"
           /\ entries' = entries
           /\ srno_index' = srno_index
           /\ heap' = heap)]_vars

\* update_user('srno', 'abc', ...) has just run on a store that holds records.
C12_Witness ==
    /\ last.op = "update_user"
    /\ last.key = "srno"
    /\ last.value = Tabc
    /\ last.res.kind = "False"
    /\ Len(entries) > 0

\* C13: add_user returns the created record when it succeeds and something
\* else when the age is rejected.
C13_CreateResultTellsOutcome ==
    last.op = "add_user"
    => IF AgeOf(last.data) \in Malformed
       THEN last.res.kind # "User"
       ELSE last.res = Result("User", last.target)

\* The store holds exactly the records recs, in this order, each indexed under
\* its own srno.
StoreIs(recs) ==
    /\ Len(entries) = Len(recs)
    /\ \A i \in 1..Len(recs) : heap[entries[i]] = recs[i]
    /\ DOMAIN srno_index = {recs[i].srno.n : i \in 1..Len(recs)}
    /\ \A i \in 1..Len(recs) : srno_index[recs[i].srno.n] = entries[i]

AliceAged(age) ==
    User(PyInt(1), PyStr(Alice), PyInt(age), PyStr(Female), PyStr(Engineer))
BobRecord == User(PyInt(2), PyStr(Bob), PyInt(25), PyStr(Male), PyStr(Doctor))

\* The stages of the end-to-end scenario.
Stage0 == StoreIs(<< >>)
Stage1 == StoreIs(<<AliceAged(30)>>)
Stage2 == StoreIs(<<AliceAged(30), BobRecord>>)
Stage3 == StoreIs(<<AliceAged(31), BobRecord>>)
Stage4 == StoreIs(<<AliceAged(31)>>)

IsAdd(call, name, age, gender, occupation) ==
    call.op = "add_user" /\ call.data = AddData(name, age, gender, occupation)
IsCall(call, op, key, value, data) ==
    call.op = op /\ call.key = key /\ call.value = value /\ call.data = data

\* C14: from the empty store, create Alice(30, F, Engineer) gives srno 1;
\* then create Bob(25, M, Doctor) gives srno 2; then update(name = 'Alice',
\* age '31') makes record 1's age 31 with srno still 1; then
\* delete(name = 'Bob') leaves only record 1 in entries; then
\* find(srno = '2') returns None.
C14_EndToEndScenario ==
    [][/\ (Stage0 /\ IsAdd(last', Alice, T30, Female, Engineer)) => Stage1'
       /\ (Stage1 /\ IsAdd(last', Bob, T25, Male, Doctor)) => Stage2'
       /\ (Stage2 /\ IsCall(last', "update_user", "name", Alice, <<<<"age", T31>>>>))
            => (Stage3' /\ last'.res.kind = "True")
       /\ (Stage3 /\ IsCall(last', "delete_user", "name", Bob, << >>))
            => (Stage4' /\ last'.res.kind = "True")
       /\ (Stage4 /\ IsCall(last', "find_user", "srno", <<"2">>, << >>))
            => (Stage4' /\ last'.res.kind = "None")]_vars

\* The last call of the scenario has run: srno 1 and 2 were issued, only
\* Alice aged 31 is left and find(srno = '2') was the last call.
C14_Witness ==
    /\ Stage4
    /\ issued = {1, 2}
    /\ IsCall(last, "find_user", "srno", <<"2">>, << >>)
    /\ last.res.kind = "None"

\* C15: whenever delete_user resolves a record through find_user, the srno of
\* that record is a key of srno_index and the call returns True: it does not
\* fail on the index after having removed the record from entries.
C15_DeleteFindsIndexKey ==
    [][(/\ last'.op = "delete_user"
        /\ find_user(last'.key, last'.value).kind = "User")
       => LET user == heap[find_user(last'.key, last'.value).oid]
          IN  /\ user.srno.t = "int"
              /\ user.srno.n \in DOMAIN srno_index
              /\ last'.res.kind = "True"]_vars

\* C16: every record of entries is the value srno_index holds under that
\* record's srno, and every value of srno_index is a record of entries.
C16_ViewsHoldSameRecords ==
    /\ \A i \in 1..Len(entries) :
          /\ EntrySrnos[i].t = "int"
          /\ EntrySrnos[i].n \in DOMAIN srno_index
          /\ srno_index[EntrySrnos[i].n] = entries[i]
    /\ Range(srno_index) \subseteq Range(entries)

\* The value update_user is to leave in field f of rec, given new_data.
ExpectedField(rec, new_data, f) ==
    IF \E i \in 1..Len(new_data) : new_data[i][1] = f
    THEN LET val == new_data[CHOOSE i \in 1..Len(new_data) : new_data[i][1] = f][2]
         IN  IF f = "age" THEN PyInt(AgeValue[val]) ELSE PyStr(val)
    ELSE rec[f]

\* C17: an update_user call that returns True assigns exactly the fields of
\* new_data onto the record find_user resolved; the changed record is the one
\* entries lists and the one srno_index returns for its srno; every other
\* record, the order of entries and the keys of srno_index are unchanged.
C17_UpdateSeenThroughBothViews ==
    [][(last'.op = "update_user" /\ last'.res.kind = "True")
       => LET o == last'.target
          IN  /\ \A f \in Fields :
                    heap'[o][f] = ExpectedField(heap[o], last'.data, f)
              /\ o \in Range(entries')
              /\ heap'[o].srno.t = "int"
              /\ heap'[o].srno.n \in DOMAIN srno_index'
              /\ srno_index'[heap'[o].srno.n] = o
              /\ \A p \in (DOMAIN heap) \ {o} : heap'[p] = heap[p]
              /\ DOMAIN heap' = DOMAIN heap
              /\ entries' = entries
              /\ DOMAIN srno_index' = DOMAIN srno_index]_vars

\* e without its i-th element.
Without(e, i) == [j \in 1..(Len(e) - 1) |-> IF j < i THEN e[j] ELSE e[j + 1]]

C19_IndexedLookupIsLinearScan ==
    \A k \in 0..(MaxUsers + 1) :
        LET r == find_user("srno", NatToText(k))
            hits == {i \in 1..Len(entries) : EntrySrnos[i] = PyInt(k)}
        IN  /\ (r.kind = "User") <=> (hits # {})
            /\ \A i \in hits : (\A j \in hits : i <= j) => r.oid = entries[i]

\* C20: find_user with a key that is no attribute of User returns None for a
\* non-empty value, the first record of entries for the empty value (None when
\* entries is empty), and never raises.
C20_UnknownFieldMatchesEmptyText ==
    (last.op = "find_user" /\ last.key \notin Fields)
    => IF last.value = Empty /\ entries # << >>
       THEN last.res = Result("User", entries[1])
       ELSE last.res = Result("None", 0)

\* find_user('email', '') has returned the first of two records.
C20_Witness ==
    /\ last.op = "find_user"
    /\ last.key = "email"
    /\ last.value = Empty
    /\ Len(entries) = 2
    /\ last.res = Result("User", entries[1])

=============================================================================
